---- MODULE Spec2Model ----
(***************************************************************************)
(* A model of the rusty-jira ticket store (src/src/store.rs), of the       *)
(* ticket record (src/src/models/ticket.rs) and of the status parser of    *)
(* the command line (src/src/main.rs).                                     *)
(***************************************************************************)
EXTENDS Integers, Sequences, FiniteSets, TLC

VARIABLES
    current_id,       \* TicketStore.current_id : u64, as four 16-bit limbs
    data,             \* TicketStore.data : HashMap<TicketId, Ticket>
    last,             \* the latest call: [op, args, ret]
    issued,           \* the identifiers returned by create, in call order
    deleted_count,    \* the number of deletes that returned a ticket
    edits,            \* the number of successful update/status/comment calls
    panicked,         \* the thread has panicked: nothing runs any more
    text,             \* the status text handed to Status::from_str
    parsed,           \* what from_str did with it
    pc,               \* where main is: "idle" (no process), "loaded", "operated"
    command,          \* the Command of the run
    file,             \* the persisted store: None, or Some of what save wrote
    events,           \* what the run has done so far: load, a store call, save
    exit,             \* how the latest run ended, "none" while it runs
    runs,             \* the number of runs started
    deleted_ids,      \* the identifiers whose delete returned a ticket
    output            \* what the run printed about its store call

vars == <<current_id, data, last, issued, deleted_count, edits,
          panicked, text, parsed,
          pc, command, file, events, exit, runs, deleted_ids, output>>

main_vars == <<pc, command, file, events, exit, runs, deleted_ids, output>>

store_vars == <<current_id, data>>

-----------------------------------------------------------------------------
(* Bounds of the model.                                                    *)

MaxCreates == 2
MaxEdits == 2
MaxTextLen == 4

-----------------------------------------------------------------------------
(* u64 (TicketId): four limbs of 16 bits, most significant first.          *)

LimbBits == 16
NumLimbs == 4
LimbBase == 2 ^ LimbBits

U64 == [1..NumLimbs -> 0..(LimbBase - 1)]

U64Zero == [i \in 1..NumLimbs |-> 0]
U64Max == [i \in 1..NumLimbs |-> LimbBase - 1]

\* the u64 of a small natural number (n < 2^31)
ToU64(n) ==
    [i \in 1..NumLimbs |->
        IF i = NumLimbs THEN n % LimbBase
        ELSE IF i = NumLimbs - 1 THEN n \div LimbBase
        ELSE 0]

RECURSIVE IncFrom(_, _)
IncFrom(x, i) ==
    IF i = 0 THEN x
    ELSE IF x[i] < LimbBase - 1 THEN [x EXCEPT ![i] = @ + 1]
    ELSE IncFrom([x EXCEPT ![i] = 0], i - 1)

\* x + 1 modulo 2^64
WrappingInc(x) == IncFrom(x, NumLimbs)

\* x - 1 for x > 0
RECURSIVE DecFrom(_, _)
DecFrom(x, i) ==
    IF i = 0 THEN x
    ELSE IF x[i] > 0 THEN [x EXCEPT ![i] = @ - 1]
    ELSE DecFrom([x EXCEPT ![i] = LimbBase - 1], i - 1)

U64Pred(x) == DecFrom(x, NumLimbs)

RECURSIVE LessFrom(_, _, _)
LessFrom(a, b, i) ==
    IF i > NumLimbs THEN FALSE
    ELSE IF a[i] # b[i] THEN a[i] < b[i]
    ELSE LessFrom(a, b, i + 1)

U64Less(a, b) == LessFrom(a, b, 1)
U64Leq(a, b) == a = b \/ U64Less(a, b)

-----------------------------------------------------------------------------
(* Option<T>: None is the empty sequence, Some(x) the sequence <<x>>.      *)

None == << >>
Some(x) == <<x>>
IsSome(o) == Len(o) = 1
Unwrap(o) == o[1]
Unit == "()"

-----------------------------------------------------------------------------
(* The values of the model.                                                *)

Statuses == {"ToDo", "InProgress", "Blocked", "Done"}
Titles == {"t1", "t2"}
Descriptions == {"", "d1"}
CommentTexts == {"c1", "c2"}

TicketDrafts ==
    {[title |-> "t1", description |-> ""], [title |-> "t2", description |-> "d1"]}

\* a patch names a new title or none, and a new description or none
TicketPatches ==
    [title : {None, Some("t2")}, description : {None, Some("d1")}]

Ticket(id, title, description, status, comments) ==
    [id |-> id, title |-> title, description |-> description,
     status |-> status, comments |-> comments]

DeletedTicket(t) == <<t>>

\* the identifiers a caller passes: those create can issue, and the largest
IdArgs == {ToU64(n) : n \in 1..MaxCreates} \cup {U64Max}

\* from_str has not run
NotParsed == [kind |-> "None", status |-> ""]

NoCall == [op |-> "none", args |-> << >>, ret |-> << >>]

NoCommand == [kind |-> "None"]

\* no process has run
NoProcess ==
    /\ pc = "idle"
    /\ command = NoCommand
    /\ file = None
    /\ events = << >>
    /\ exit = "none"
    /\ runs = 0
    /\ deleted_ids = {}
    /\ output = ""

Call(op, args, ret) == [op |-> op, args |-> args, ret |-> ret]

-----------------------------------------------------------------------------
(* TicketStore (src/src/store.rs).                                         *)

\* HashMap::insert: the value under key k is v afterwards, old or new key
Insert(d, k, v) ==
    [x \in (DOMAIN d) \cup {k} |-> IF x = k THEN v ELSE d[x]]

\* HashMap::remove, the map that is left
Remove_KeepsEntry(d, k) == d

Remove(d, k) == [x \in (DOMAIN d) \ {k} |-> d[x]]

\* delete does not touch current_id
CounterAfterDelete(cur, id) == cur

\* TicketStore::get
Get(d, id) == IF id \in DOMAIN d THEN Some(d[id]) ELSE None

\* generate_id: `self.current_id += 1` overflows at u64::MAX. A build with
\* overflow checks (the debug profile) panics there, a build without them
\* (the release profile) wraps to 0: OverflowChecks is the set of builds
OverflowChecks == BOOLEAN

GenerateIdPanics(cur, checks) == cur = U64Max /\ checks

GenerateId_NoIncrement(cur) == cur

GenerateId(cur) == WrappingInc(cur)

\* the Ticket that create builds from a draft
NewTicket_DropsDescription(id, draft) ==
    [id |-> id, title |-> draft.title, description |-> "",
     status |-> "ToDo", comments |-> << >>]

NewTicket_IdZero(id, draft) ==
    [id |-> U64Zero, title |-> draft.title, description |-> draft.description,
     status |-> "ToDo", comments |-> << >>]

NewTicket(id, draft) ==
    Ticket(id, draft.title, draft.description, "ToDo", << >>)

\* the closure of update_ticket
ApplyPatch_ClearsAbsent(t, patch) ==
    [t EXCEPT !.title = IF IsSome(patch.title) THEN Unwrap(patch.title) ELSE @,
              !.description = IF IsSome(patch.description)
                              THEN Unwrap(patch.description) ELSE ""]

ApplyPatch(t, patch) ==
    LET t1 == IF IsSome(patch.title)
              THEN [t EXCEPT !.title = Unwrap(patch.title)] ELSE t
    IN IF IsSome(patch.description)
       THEN [t1 EXCEPT !.description = Unwrap(patch.description)] ELSE t1

\* the closure of update_ticket_status
SetStatus_DoneIsFinal(t, status) ==
    IF t.status = "Done" THEN t ELSE [t EXCEPT !.status = status]

SetStatus(t, status) == [t EXCEPT !.status = status]

\* the closure of add_comment_to_ticket
PushComment_SkipsEqual(t, comment) ==
    IF \E i \in 1..Len(t.comments) : t.comments[i] = comment THEN t
    ELSE [t EXCEPT !.comments = Append(@, comment)]

PushComment(t, comment) == [t EXCEPT !.comments = Append(@, comment)]

\* TicketStore::list: one reference per entry, in the map's iteration order,
\* which is any order
ListOrders_OmitsDone(d) ==
    LET keys == {k \in DOMAIN d : d[k].status # "Done"}
        n == Cardinality(keys)
    IN {[i \in 1..n |-> d[f[i]]] :
          f \in {g \in [1..n -> keys] :
                   \A i, j \in 1..n : i # j => g[i] # g[j]}}

ListOrders(d) ==
    LET n == Cardinality(DOMAIN d)
    IN {[i \in 1..n |-> d[f[i]]] :
          f \in {g \in [1..n -> DOMAIN d] :
                   \A i, j \in 1..n : i # j => g[i] # g[j]}}

Init ==
    /\ current_id = U64Zero
    /\ data = << >>
    /\ last = NoCall
    /\ issued = << >>
    /\ deleted_count = 0
    /\ edits = 0
    /\ panicked = FALSE
    /\ text = << >>
    /\ parsed = NotParsed
    /\ NoProcess

Create ==
    /\ ~panicked
    /\ Len(issued) < MaxCreates
    /\ \E draft \in TicketDrafts, checks \in OverflowChecks :
         IF GenerateIdPanics(current_id, checks)
         THEN /\ panicked' = TRUE
              /\ last' = Call("create", <<draft>>, << >>)
              /\ UNCHANGED <<current_id, data, issued>>
         ELSE LET id == GenerateId(current_id)
              IN /\ current_id' = id
                 /\ LET ticket == NewTicket(id, draft)
                    IN data' = Insert(data, ticket.id, ticket)
                 /\ issued' = Append(issued, id)
                 /\ last' = Call("create", <<draft>>, id)
                 /\ UNCHANGED panicked
    /\ UNCHANGED main_vars
    /\ UNCHANGED <<deleted_count, edits, text, parsed>>

Delete ==
    /\ ~panicked
    /\ \E ticket_id \in IdArgs \cup DOMAIN data :
         LET removed == Get(data, ticket_id)
         IN /\ data' = Remove(data, ticket_id)
            /\ last' = Call("delete", <<ticket_id>>,
                            IF IsSome(removed)
                            THEN Some(DeletedTicket(Unwrap(removed)))
                            ELSE None)
            /\ current_id' = CounterAfterDelete(current_id, ticket_id)
            /\ deleted_count' = deleted_count + (IF IsSome(removed) THEN 1 ELSE 0)
            /\ deleted_ids' = IF IsSome(removed) THEN deleted_ids \cup {ticket_id}
                              ELSE deleted_ids
    /\ UNCHANGED <<pc, command, file, events, exit, runs, output>>
    /\ UNCHANGED <<issued, edits, panicked, text, parsed>>

List ==
    /\ ~panicked
    /\ \E tickets \in ListOrders(data) :
         last' = Call("list", << >>, tickets)
    /\ UNCHANGED main_vars
    /\ UNCHANGED <<current_id, data, issued, deleted_count, edits,
                   panicked, text, parsed>>

GetTicket ==
    /\ ~panicked
    /\ \E id \in IdArgs \cup DOMAIN data :
         last' = Call("get", <<id>>, Get(data, id))
    /\ UNCHANGED main_vars
    /\ UNCHANGED <<current_id, data, issued, deleted_count, edits,
                   panicked, text, parsed>>

\* get_mut(&id).map(f) returns Some(()) if there is an entry and None if not
GetMutResult_AlwaysSome(d, id) == Some(Unit)

GetMutResult(d, id) == IF id \in DOMAIN d THEN Some(Unit) ELSE None

\* the map after update_ticket: the closure runs on the entry, if any
PatchEntry(d, id, patch) ==
    IF id \in DOMAIN d THEN [d EXCEPT ![id] = ApplyPatch(@, patch)] ELSE d

\* the map after update_ticket_status
StatusEntry_All(d, id, status) ==
    IF id \in DOMAIN d THEN [k \in DOMAIN d |-> SetStatus(d[k], status)] ELSE d

StatusEntry(d, id, status) ==
    IF id \in DOMAIN d THEN [d EXCEPT ![id] = SetStatus(@, status)] ELSE d

\* the map after add_comment_to_ticket
CommentEntry(d, id, comment) ==
    IF id \in DOMAIN d THEN [d EXCEPT ![id] = PushComment(@, comment)] ELSE d

\* what the model records of an update call: the identifier, and the value
\* it came with when the call found a ticket
UpdateArgs(d, id, value) == IF id \in DOMAIN d THEN <<id, value>> ELSE <<id>>

Hit(d, id) == IF id \in DOMAIN d THEN 1 ELSE 0

UpdateTicket ==
    /\ ~panicked
    /\ \E id \in IdArgs \cup DOMAIN data, patch \in TicketPatches :
         /\ edits + Hit(data, id) <= MaxEdits
         /\ data' = PatchEntry(data, id, patch)
         /\ last' = Call("update_ticket", UpdateArgs(data, id, patch),
                         GetMutResult(data, id))
         /\ edits' = edits + Hit(data, id)
    /\ UNCHANGED main_vars
    /\ UNCHANGED <<current_id, issued, deleted_count, panicked, text, parsed>>

UpdateTicketStatus ==
    /\ ~panicked
    /\ \E id \in IdArgs \cup DOMAIN data, status \in Statuses :
         /\ edits + Hit(data, id) <= MaxEdits
         /\ data' = StatusEntry(data, id, status)
         /\ last' = Call("update_ticket_status", UpdateArgs(data, id, status),
                         GetMutResult(data, id))
         /\ edits' = edits + Hit(data, id)
    /\ UNCHANGED main_vars
    /\ UNCHANGED <<current_id, issued, deleted_count, panicked, text, parsed>>

AddCommentToTicket ==
    /\ ~panicked
    /\ \E id \in IdArgs \cup DOMAIN data, comment \in CommentTexts :
         /\ edits + Hit(data, id) <= MaxEdits
         /\ data' = CommentEntry(data, id, comment)
         /\ last' = Call("add_comment_to_ticket", UpdateArgs(data, id, comment),
                         GetMutResult(data, id))
         /\ edits' = edits + Hit(data, id)
    /\ UNCHANGED main_vars
    /\ UNCHANGED <<current_id, issued, deleted_count, panicked, text, parsed>>

Next ==
    \/ Create
    \/ Delete
    \/ List
    \/ GetTicket
    \/ UpdateTicket
    \/ UpdateTicketStatus
    \/ AddCommentToTicket

Spec == Init /\ [][Next]_vars

-----------------------------------------------------------------------------
(* A store that was loaded instead of built by TicketStore::new: the       *)
(* counter is a u64 of the saved file, here one of the two largest, and    *)
(* the tickets are stored under identifiers the counter has passed.        *)

HighIds == {U64Pred(U64Max), U64Max}

\* the keys of a loaded store: identifiers from 1 up to its counter
LoadedKeys(c) == {k \in {ToU64(1), U64Max} : U64Leq(k, c)}

LoadedStores ==
    UNION {{[current_id |-> c,
             data |-> [k \in ks |->
                         NewTicket(k, [title |-> "t1", description |-> "d1"])]] :
              ks \in SUBSET LoadedKeys(c)} : c \in HighIds}

InitLoaded ==
    /\ \E st \in LoadedStores :
         /\ current_id = st.current_id
         /\ data = st.data
    /\ last = NoCall
    /\ issued = << >>
    /\ deleted_count = 0
    /\ edits = 0
    /\ panicked = FALSE
    /\ text = << >>
    /\ parsed = NotParsed
    /\ NoProcess

SpecLoaded == InitLoaded /\ [][Next]_vars

-----------------------------------------------------------------------------
(* The properties of the store.                                            *)

\* C1: from a new store the k-th create returns the identifier k, every
\* identifier create returns is greater than all it returned before, and so
\* none is issued twice, deleted or not.
C1_IdsCountUp ==
    /\ \A k \in 1..Len(issued) : issued[k] = ToU64(k)
    /\ \A i, j \in 1..Len(issued) : i < j => U64Less(issued[i], issued[j])

\* a create that followed the deletion of the first ticket
C1_Witness ==
    /\ last.op = "create"
    /\ Len(issued) >= 2
    /\ issued[1] \notin DOMAIN data

\* C2: right after create(draft) returned id, get(id) is a ticket with that
\* id, the draft's title and description, status ToDo and no comments.
C2_CreateThenGet ==
    (last.op = "create" /\ ~panicked) =>
        LET id == last.ret
            draft == last.args[1]
            got == Get(data, id)
        IN /\ IsSome(got)
           /\ Unwrap(got).id = id
           /\ Unwrap(got).title = draft.title
           /\ Unwrap(got).description = draft.description
           /\ Unwrap(got).status = "ToDo"
           /\ Unwrap(got).comments = << >>

\* a create into a store that holds an edited ticket already
C2_Witness ==
    /\ last.op = "create"
    /\ last.args[1].description = "d1"
    /\ Cardinality(DOMAIN data) = 2
    /\ edits >= 1

\* C3: create never fails, whatever the counter: it returns an identifier
\* that was no key of the store and leaves every stored ticket as it was.
C3_CreateNeverFails ==
    [][last'.op = "create" =>
         /\ ~panicked'
         /\ last'.ret \notin DOMAIN data
         /\ \A k \in DOMAIN data : k \in DOMAIN data' /\ data'[k] = data[k]]_vars

\* C4: delete of a stored id returns the record get returned just before,
\* wrapped as a DeletedTicket, and get returns nothing afterwards.
C4_DeleteReturnsRecord ==
    [][\A id \in DOMAIN data :
         (last'.op = "delete" /\ last'.args = <<id>>) =>
             /\ last'.ret = Some(DeletedTicket(Unwrap(Get(data, id))))
             /\ Get(data', id) = None]_vars

\* a ticket with a comment was deleted
C4_Witness ==
    /\ last.op = "delete"
    /\ IsSome(last.ret)
    /\ Len(Unwrap(last.ret)[1].comments) >= 1
    /\ last.args[1] \notin DOMAIN data

LookupOps ==
    {"get", "update_ticket", "update_ticket_status", "add_comment_to_ticket",
     "delete"}

\* C5: for an identifier that is no key, get, update_ticket,
\* update_ticket_status, add_comment_to_ticket and delete return None and
\* leave the tickets and the counter as they were.
C5_MissChangesNothing ==
    [][(last'.op \in LookupOps /\ last'.args[1] \notin DOMAIN data) =>
         /\ last'.ret = None
         /\ data' = data
         /\ current_id' = current_id]_vars

\* a comment for the identifier of a deleted ticket, other tickets stored
C5_Witness ==
    /\ last.op = "add_comment_to_ticket"
    /\ last.ret = None
    /\ last.args[1] \in {issued[i] : i \in 1..Len(issued)}
    /\ DOMAIN data # {}

\* C6: update_ticket of a stored id returns Some(()) and sets the title and
\* the description to the patch's where the patch has one and leaves them
\* otherwise; an empty patch changes no field.
C6_PatchSemantics ==
    [][(last'.op = "update_ticket" /\ last'.args[1] \in DOMAIN data) =>
         LET id == last'.args[1]
             patch == last'.args[2]
             old == data[id]
             new == data'[id]
         IN /\ last'.ret = Some(Unit)
            /\ new.title = IF patch.title = None THEN old.title
                           ELSE Unwrap(patch.title)
            /\ new.description = IF patch.description = None THEN old.description
                                 ELSE Unwrap(patch.description)
            /\ (patch.title = None /\ patch.description = None) => new = old]_vars

\* a patch with a description only was applied to a ticket titled t1
C6_Witness ==
    /\ last.op = "update_ticket"
    /\ IsSome(last.ret)
    /\ last.args[2].title = None
    /\ last.args[2].description = Some("d1")
    /\ data[last.args[1]].title = "t1"
    /\ data[last.args[1]].description = "d1"

\* C7: update_ticket_status of a stored id returns Some(()) and the status
\* is the requested one afterwards, whatever it was before.
C7_StatusOverwritten ==
    [][(last'.op = "update_ticket_status" /\ last'.args[1] \in DOMAIN data) =>
         /\ last'.ret = Some(Unit)
         /\ data'[last'.args[1]].status = last'.args[2]]_vars

\* the second successful edit of a run asks for ToDo, the status the only
\* stored ticket was created with
C7_Witness ==
    /\ last.op = "update_ticket_status"
    /\ IsSome(last.ret)
    /\ last.args[2] = "ToDo"
    /\ edits = 2
    /\ Cardinality(DOMAIN data) = 1
    /\ data[last.args[1]].comments = << >>
    /\ data[last.args[1]].title = "t1"
    /\ data[last.args[1]].description = ""

\* C8: add_comment_to_ticket of a stored id returns Some(()) and appends the
\* comment: one element more, the earlier ones kept in order, the new one
\* last, also when an equal comment is there already.
C8_CommentAppended ==
    [][(last'.op = "add_comment_to_ticket" /\ last'.args[1] \in DOMAIN data) =>
         LET old == data[last'.args[1]].comments
             new == data'[last'.args[1]].comments
         IN /\ last'.ret = Some(Unit)
            /\ Len(new) = Len(old) + 1
            /\ \A i \in 1..Len(old) : new[i] = old[i]
            /\ new[Len(new)] = last'.args[2]]_vars

\* a comment was appended to a ticket that had an equal one
C8_Witness ==
    /\ last.op = "add_comment_to_ticket"
    /\ IsSome(last.ret)
    /\ data[last.args[1]].comments = <<last.args[2], last.args[2]>>

\* C9: list returns one entry per stored ticket and nothing else, each in
\* its current state, in some order; its length is the number of creates
\* minus the number of deletes that returned a ticket (0 on a new store).
C9_ListIsTheStore ==
    last.op = "list" =>
        LET r == last.ret
        IN /\ Len(r) = Cardinality(DOMAIN data)
           /\ {r[i] : i \in 1..Len(r)} = {data[k] : k \in DOMAIN data}
           /\ \A k \in DOMAIN data :
                Cardinality({i \in 1..Len(r) : r[i].id = k}) = 1
           /\ Len(r) = Len(issued) - deleted_count

\* list after two creates, an edit and a delete
C9_Witness ==
    /\ last.op = "list"
    /\ Len(last.ret) = 1
    /\ deleted_count = 1
    /\ edits >= 1

-----------------------------------------------------------------------------
(* impl FromStr for Status (src/src/main.rs). A text is a sequence of      *)
(* characters.                                                             *)

CasePairs ==
    {<<"A", "a">>, <<"B", "b">>, <<"C", "c">>, <<"D", "d">>, <<"E", "e">>,
     <<"F", "f">>, <<"G", "g">>, <<"H", "h">>, <<"I", "i">>, <<"J", "j">>,
     <<"K", "k">>, <<"L", "l">>, <<"M", "m">>, <<"N", "n">>, <<"O", "o">>,
     <<"P", "p">>, <<"Q", "q">>, <<"R", "r">>, <<"S", "s">>, <<"T", "t">>,
     <<"U", "u">>, <<"V", "v">>, <<"W", "w">>, <<"X", "x">>, <<"Y", "y">>,
     <<"Z", "z">>}

\* char lowercase: an upper-case letter becomes its lower-case letter, any
\* other character stays
LowerChar(c) ==
    IF \E p \in CasePairs : p[1] = c
    THEN (CHOOSE p \in CasePairs : p[1] = c)[2]
    ELSE c

UpperChar(c) ==
    IF \E p \in CasePairs : p[2] = c
    THEN (CHOOSE p \in CasePairs : p[2] = c)[1]
    ELSE c

\* str::to_lowercase
ToLowercase_Identity(s) == s

ToLowercase(s) == [i \in 1..Len(s) |-> LowerChar(s[i])]

Ok(status) == [kind |-> "Ok", status |-> status]
Err == [kind |-> "Err", status |-> ""]
Panic == [kind |-> "Panic", status |-> ""]

\* Status::from_str: the match on the lower-cased text; its last arm panics
FromStr(s) ==
    LET l == ToLowercase(s)
    IN IF l = <<"t", "o", "d", "o">> \/ l = <<"t", "o", "-", "d", "o">>
       THEN Ok("ToDo")
       ELSE IF \/ l = <<"i", "n", "p", "r", "o", "g", "r", "e", "s", "s">>
               \/ l = <<"i", "n", "-", "p", "r", "o", "g", "r", "e", "s", "s">>
       THEN Ok("InProgress")
       ELSE IF l = <<"b", "l", "o", "c", "k", "e", "d">>
       THEN Ok("Blocked")
       ELSE IF l = <<"d", "o", "n", "e">>
       THEN Ok("Done")
       ELSE Panic

\* the texts handed to from_str: every text of up to MaxTextLen characters
\* of a small alphabet, every casing of the spellings of the match arms,
\* and some texts close to them
TextAlphabet == {"d", "o", "n", "e", "D", "-", " "}

ShortTexts == UNION {[1..n -> TextAlphabet] : n \in 0..MaxTextLen}

Spellings ==
    {<<"t", "o", "d", "o">>,
     <<"t", "o", "-", "d", "o">>,
     <<"i", "n", "p", "r", "o", "g", "r", "e", "s", "s">>,
     <<"i", "n", "-", "p", "r", "o", "g", "r", "e", "s", "s">>,
     <<"b", "l", "o", "c", "k", "e", "d">>,
     <<"d", "o", "n", "e">>}

Casings(w) ==
    {[i \in 1..Len(w) |-> IF i \in up THEN UpperChar(w[i]) ELSE w[i]] :
        up \in SUBSET (1..Len(w))}

NearTexts ==
    {<<"d", "o", "i", "n", "g">>,
     <<"t", "o", " ", "d", "o">>,
     <<"t", "o", "_", "d", "o">>,
     <<"T", "O", "D", "O", " ">>,
     <<" ", "t", "o", "d", "o">>,
     <<"i", "n", " ", "p", "r", "o", "g", "r", "e", "s", "s">>,
     <<"i", "n", "_", "p", "r", "o", "g", "r", "e", "s", "s">>,
     <<"b", "l", "o", "c", "k">>,
     <<"d", "o", "n", "e", "!">>,
     <<"c", "l", "o", "s", "e", "d">>}

StatusTexts ==
    ShortTexts \cup UNION {Casings(w) : w \in Spellings} \cup NearTexts

InitParse ==
    /\ current_id = U64Zero
    /\ data = << >>
    /\ last = NoCall
    /\ issued = << >>
    /\ deleted_count = 0
    /\ edits = 0
    /\ panicked = FALSE
    /\ text \in StatusTexts
    /\ parsed = NotParsed
    /\ NoProcess

\* the command line hands the text of --status to from_str
ParseStatus ==
    /\ ~panicked
    /\ parsed = NotParsed
    /\ parsed' = FromStr(text)
    /\ panicked' = (parsed' = Panic)
    /\ UNCHANGED main_vars
    /\ UNCHANGED <<current_id, data, last, issued, deleted_count, edits, text>>

NextParse == ParseStatus

SpecParse == InitParse /\ [][NextParse]_vars

\* the text is one of the six spellings, compared case-insensitively
AcceptedSpelling(s) ==
    \E w \in Spellings :
        /\ Len(s) = Len(w)
        /\ \A i \in 1..Len(w) : LowerChar(s[i]) = w[i]

\* C10: parsing a text that is none of the accepted spellings yields the
\* error value InvalidStatusText, returned to the caller, and never aborts
\* the process.
C10_InvalidStatusIsError ==
    (parsed # NotParsed /\ ~AcceptedSpelling(text)) =>
        (parsed = Err /\ ~panicked)

\* the status of each spelling
SpellingStatus ==
    {<<<<"t", "o", "d", "o">>, "ToDo">>,
     <<<<"t", "o", "-", "d", "o">>, "ToDo">>,
     <<<<"i", "n", "p", "r", "o", "g", "r", "e", "s", "s">>, "InProgress">>,
     <<<<"i", "n", "-", "p", "r", "o", "g", "r", "e", "s", "s">>, "InProgress">>,
     <<<<"b", "l", "o", "c", "k", "e", "d">>, "Blocked">>,
     <<<<"d", "o", "n", "e">>, "Done">>}

\* s is w with some of its letters in upper case
CasingOf(s, w) ==
    /\ Len(s) = Len(w)
    /\ \A i \in 1..Len(w) : s[i] = w[i] \/ s[i] = UpperChar(w[i])

\* C14: in every casing, todo and to-do parse to ToDo, inprogress and
\* in-progress to InProgress, blocked to Blocked and done to Done.
C14_CaseInsensitiveMapping ==
    parsed # NotParsed =>
        \A p \in SpellingStatus : CasingOf(text, p[1]) => parsed = Ok(p[2])

\* In-PrOgress was parsed
C14_Witness ==
    /\ parsed = Ok("InProgress")
    /\ Len(text) = 11
    /\ text[1] = "I" /\ text[2] = "n" /\ text[3] = "-" /\ text[4] = "P"
    /\ text[5] = "r" /\ text[6] = "O"

-----------------------------------------------------------------------------
(* Properties of the store's bookkeeping.                                  *)

\* C16: from a new store, every ticket is stored under the key that is its
\* own id, and every key is at least 1 and at most the counter. A ticket
\* that stays stored under its key therefore keeps its id.
C16_KeyIsId ==
    \A k \in DOMAIN data :
        /\ data[k].id = k
        /\ U64Leq(ToU64(1), k)
        /\ U64Leq(k, current_id)

\* ticket 1 was deleted, ticket 2 was edited and is stored
C16_Witness ==
    /\ DOMAIN data = {ToU64(2)}
    /\ current_id = ToU64(2)
    /\ deleted_count = 1
    /\ data[ToU64(2)].status = "Blocked"
    /\ data[ToU64(2)].comments = <<"c2">>

\* the tickets under other keys than id are the same before and after
OthersKept(id) ==
    /\ DOMAIN data' \subseteq DOMAIN data
    /\ \A k \in DOMAIN data \ {id} : k \in DOMAIN data' /\ data'[k] = data[k]

-----------------------------------------------------------------------------
(* The validated values Title and Comment, and the persistence of the      *)
(* store. A raw text is a sequence of characters.                          *)

MaxRuns == 4

Whitespace == {" ", "\t"}

RECURSIVE TrimStart(_)
TrimStart(s) ==
    IF s = << >> THEN s
    ELSE IF Head(s) \in Whitespace THEN TrimStart(Tail(s)) ELSE s

RECURSIVE TrimEnd(_)
TrimEnd(s) ==
    IF s = << >> THEN s
    ELSE IF s[Len(s)] \in Whitespace THEN TrimEnd(SubSeq(s, 1, Len(s) - 1))
    ELSE s

\* str::trim
Trim(s) == TrimEnd(TrimStart(s))

ValidOk(v) == [kind |-> "Ok", value |-> v]
ValidErr(e) == [kind |-> "Err", value |-> e]

\* Title::new: EmptyTitle if the trimmed text is empty, else the raw text
TitleNew(raw) ==
    IF Len(Trim(raw)) = 0 THEN ValidErr("EmptyTitle") ELSE ValidOk(raw)

\* Comment::new: EmptyComment if the trimmed text is empty, else the raw text
CommentNew(raw) ==
    IF Len(Trim(raw)) = 0 THEN ValidErr("EmptyComment") ELSE ValidOk(raw)

\* persistence::load: the saved store, a new one if there is none
Load(f) ==
    IF IsSome(f) THEN Unwrap(f) ELSE [current_id |-> U64Zero, data |-> << >>]

\* persistence::save: the whole store, counter and tickets
Save(cur, d) == Some([current_id |-> cur, data |-> d])

-----------------------------------------------------------------------------
(* main (src/src/main.rs): one run is load, the command, save.             *)

RawTexts ==
    {<< >>, <<" ", "\t">>, <<"a">>, <<" ", "b", " ">>}

MainDescriptions == {"", "d1"}

MainIds == {ToU64(1), ToU64(2)}

Commands ==
    [kind : {"Create"}, title : RawTexts, description : MainDescriptions]
    \cup [kind : {"Edit"}, ticket_id : MainIds,
          title : {None} \cup {Some(t) : t \in RawTexts},
          description : {None, Some("d1")}]
    \cup [kind : {"Delete"}, ticket_id : MainIds]
    \cup [kind : {"List"}]
    \cup [kind : {"Move"}, ticket_id : MainIds, status : Statuses]
    \cup [kind : {"Comment"}, ticket_id : MainIds, comment : RawTexts]

\* Command::Create: the draft, or the error of Title::new(title)?
CreateDraft(title, description) ==
    LET t == TitleNew(title)
    IN IF t.kind = "Err" THEN t
       ELSE ValidOk([title |-> t.value, description |-> description])

\* Command::Edit: title.map(Title::new).transpose()?, then the patch
EditPatch_Unchecked(title, description) ==
    ValidOk([title |-> title, description |-> description])

EditPatch_SkipsBadTitle(title, description) ==
    ValidOk([title |-> IF IsSome(title) /\ TitleNew(Unwrap(title)).kind = "Ok"
                       THEN title ELSE None,
             description |-> description])

EditPatch(title, description) ==
    IF IsSome(title)
    THEN LET t == TitleNew(Unwrap(title))
         IN IF t.kind = "Err" THEN t
            ELSE ValidOk([title |-> Some(t.value), description |-> description])
    ELSE ValidOk([title |-> None, description |-> description])

\* the match on the Option a store call returned: both arms print and go on
Reported_NotFoundIsFatal(ret) ==
    [output |-> IF IsSome(ret) THEN "done" ELSE "no ticket associated",
     fatal |-> ~IsSome(ret)]

Reported(ret) ==
    [output |-> IF IsSome(ret) THEN "done" ELSE "no ticket associated",
     fatal |-> FALSE]

\* main returns the error of `?`: the process ends without a store call
Fail_SavesAnyway(err) ==
    /\ pc' = "idle"
    /\ exit' = err
    /\ file' = Save(current_id, data)
    /\ events' = Append(events, "save")
    /\ UNCHANGED <<current_id, data, last, deleted_ids, output>>

Fail(err) ==
    /\ pc' = "idle"
    /\ exit' = err
    /\ UNCHANGED <<current_id, data, last, file, events, deleted_ids, output>>

\* the store call returned ret: main prints and goes on to save
GoOn(op, ret) ==
    LET rep == Reported(ret)
    IN /\ events' = Append(events, op)
       /\ output' = rep.output
       /\ IF rep.fatal
          THEN pc' = "idle" /\ exit' = "NotFound"
          ELSE pc' = "operated" /\ exit' = "none"

StartRun ==
    /\ pc = "idle"
    /\ runs < MaxRuns
    /\ runs' = runs + 1
    /\ \E cmd \in Commands : command' = cmd
    /\ LET st == Load(file)
       IN /\ current_id' = st.current_id
          /\ data' = st.data
    /\ pc' = "loaded"
    /\ events' = <<"load">>
    /\ exit' = "none"
    /\ last' = NoCall
    /\ output' = ""
    /\ UNCHANGED <<file, deleted_ids>>
    /\ UNCHANGED <<issued, deleted_count, edits, panicked, text, parsed>>

RunCreate ==
    /\ pc = "loaded"
    /\ command.kind = "Create"
    /\ LET draft == CreateDraft(command.title, command.description)
       IN IF draft.kind = "Err"
          THEN Fail(draft.value)
          ELSE \E checks \in OverflowChecks :
                 IF GenerateIdPanics(current_id, checks)
                 THEN /\ pc' = "idle"
                      /\ exit' = "panic"
                      /\ last' = Call("create", <<draft.value>>, << >>)
                      /\ events' = Append(events, "create")
                      /\ UNCHANGED <<current_id, data, file, output>>
                 ELSE LET id == GenerateId(current_id)
                          ticket == NewTicket(id, draft.value)
                      IN /\ current_id' = id
                         /\ data' = Insert(data, ticket.id, ticket)
                         /\ last' = Call("create", <<draft.value>>, id)
                         /\ events' = Append(events, "create")
                         /\ pc' = "operated"
                         /\ UNCHANGED <<file, exit, output>>
    /\ UNCHANGED <<command, runs, deleted_ids>>
    /\ UNCHANGED <<issued, deleted_count, edits, panicked, text, parsed>>

RunEdit ==
    /\ pc = "loaded"
    /\ command.kind = "Edit"
    /\ LET patch == EditPatch(command.title, command.description)
           id == command.ticket_id
       IN IF patch.kind = "Err"
          THEN Fail(patch.value)
          ELSE /\ data' = PatchEntry(data, id, patch.value)
               /\ last' = Call("update_ticket", UpdateArgs(data, id, patch.value),
                               GetMutResult(data, id))
               /\ GoOn("update_ticket", GetMutResult(data, id))
               /\ UNCHANGED <<current_id, file, deleted_ids>>
    /\ UNCHANGED <<command, runs>>
    /\ UNCHANGED <<issued, deleted_count, edits, panicked, text, parsed>>

RunDelete ==
    /\ pc = "loaded"
    /\ command.kind = "Delete"
    /\ LET id == command.ticket_id
           removed == Get(data, id)
           ret == IF IsSome(removed) THEN Some(DeletedTicket(Unwrap(removed)))
                  ELSE None
       IN /\ data' = Remove(data, id)
          /\ current_id' = CounterAfterDelete(current_id, id)
          /\ last' = Call("delete", <<id>>, ret)
          /\ deleted_ids' = IF IsSome(ret) THEN deleted_ids \cup {id}
                            ELSE deleted_ids
          /\ GoOn("delete", ret)
    /\ UNCHANGED <<command, file, runs>>
    /\ UNCHANGED <<issued, deleted_count, edits, panicked, text, parsed>>

RunList ==
    /\ pc = "loaded"
    /\ command.kind = "List"
    /\ \E tickets \in ListOrders(data) :
         /\ last' = Call("list", << >>, tickets)
         /\ output' = "tickets"
    /\ events' = Append(events, "list")
    /\ pc' = "operated"
    /\ UNCHANGED <<current_id, data, command, file, exit, runs, deleted_ids>>
    /\ UNCHANGED <<issued, deleted_count, edits, panicked, text, parsed>>

RunMove ==
    /\ pc = "loaded"
    /\ command.kind = "Move"
    /\ LET id == command.ticket_id
       IN /\ data' = StatusEntry(data, id, command.status)
          /\ last' = Call("update_ticket_status",
                          UpdateArgs(data, id, command.status),
                          GetMutResult(data, id))
          /\ GoOn("update_ticket_status", GetMutResult(data, id))
    /\ UNCHANGED <<current_id, command, file, runs, deleted_ids>>
    /\ UNCHANGED <<issued, deleted_count, edits, panicked, text, parsed>>

RunComment ==
    /\ pc = "loaded"
    /\ command.kind = "Comment"
    /\ LET new_comment == CommentNew(command.comment)
           id == command.ticket_id
       IN IF new_comment.kind = "Err"
          THEN Fail(new_comment.value)
          ELSE /\ data' = CommentEntry(data, id, new_comment.value)
               /\ last' = Call("add_comment_to_ticket",
                               UpdateArgs(data, id, new_comment.value),
                               GetMutResult(data, id))
               /\ GoOn("add_comment_to_ticket", GetMutResult(data, id))
               /\ UNCHANGED <<current_id, file, deleted_ids>>
    /\ UNCHANGED <<command, runs>>
    /\ UNCHANGED <<issued, deleted_count, edits, panicked, text, parsed>>

SaveRun ==
    /\ pc = "operated"
    /\ file' = Save(current_id, data)
    /\ events' = Append(events, "save")
    /\ exit' = "ok"
    /\ pc' = "idle"
    /\ UNCHANGED <<current_id, data, last, command, runs, deleted_ids, output>>
    /\ UNCHANGED <<issued, deleted_count, edits, panicked, text, parsed>>

NextMain ==
    \/ StartRun
    \/ RunCreate
    \/ RunEdit
    \/ RunDelete
    \/ RunList
    \/ RunMove
    \/ RunComment
    \/ SaveRun

SpecMain == Init /\ [][NextMain]_vars

-----------------------------------------------------------------------------
(* The properties of a run.                                                *)

StoreOps ==
    {"create", "update_ticket", "delete", "list", "update_ticket_status",
     "add_comment_to_ticket"}

\* the store operation of a command
OpOf(kind) ==
    CASE kind = "Create" -> "create"
      [] kind = "Edit" -> "update_ticket"
      [] kind = "Delete" -> "delete"
      [] kind = "List" -> "list"
      [] kind = "Move" -> "update_ticket_status"
      [] kind = "Comment" -> "add_comment_to_ticket"

ValidationErrors == {"EmptyTitle", "EmptyComment"}

\* every character of the text is whitespace
Blank(s) == \A i \in 1..Len(s) : s[i] \in Whitespace

\* the command carries a title or a comment that is empty after trimming
InvalidInput(cmd) ==
    \/ cmd.kind = "Create" /\ Blank(cmd.title)
    \/ cmd.kind = "Edit" /\ IsSome(cmd.title) /\ Blank(Unwrap(cmd.title))
    \/ cmd.kind = "Comment" /\ Blank(cmd.comment)

\* C11 as claimed: every run that has ended did one load, one store
\* operation and one save, in this order.
C11_EveryRunLoadsOperatesSaves ==
    (pc = "idle" /\ runs > 0) =>
        /\ Len(events) = 3
        /\ events[1] = "load"
        /\ events[2] \in StoreOps
        /\ events[3] = "save"

\* C11 as amended: a run does at most one load, then at most one store
\* operation, the one of its command, then at most one save; a run that
\* ends successfully did all three; a run whose validation fails ends with
\* that error after the load, without a store operation and without a save.
C11_RunOrder ==
    /\ Len(events) <= 3
    /\ Len(events) >= 1 => events[1] = "load"
    /\ Len(events) >= 2 => events[2] = OpOf(command.kind)
    /\ Len(events) >= 3 => events[3] = "save"
    /\ pc = "loaded" => events = <<"load">>
    /\ pc = "operated" => Len(events) = 2
    /\ (pc = "idle" /\ runs > 0) =>
         \/ exit = "ok" /\ Len(events) = 3
         \/ exit \in ValidationErrors /\ events = <<"load">>
         \/ exit = "panic" /\ events = <<"load", "create">>

\* a run that failed validation, after a run that saved
C11_Witness ==
    /\ pc = "idle"
    /\ exit = "EmptyComment"
    /\ events = <<"load">>
    /\ IsSome(file)

\* C12: when Title::new or Comment::new fails in a run, the run ends with
\* that error before any store operation: the store is as loaded, no call
\* was made, and the file is not written.
C12_InvalidInputStopsTheRun ==
    [][(pc = "loaded" /\ InvalidInput(command) /\ pc' # "loaded") =>
         /\ pc' = "idle"
         /\ exit' = IF command.kind = "Comment" THEN "EmptyComment"
                    ELSE "EmptyTitle"
         /\ last' = NoCall
         /\ events' = <<"load">>
         /\ data' = data
         /\ current_id' = current_id
         /\ file' = file]_vars

\* an Edit with a blank title and a description for a stored ticket that
\* has another description: the ticket is as it was
C12_Witness ==
    /\ pc = "idle"
    /\ exit = "EmptyTitle"
    /\ command.kind = "Edit"
    /\ command.title = Some(<<" ", "\t">>)
    /\ command.description = Some("d1")
    /\ IsSome(file)
    /\ command.ticket_id \in DOMAIN Unwrap(file).data
    /\ Unwrap(file).data[command.ticket_id].description = ""
    /\ data = Unwrap(file).data

MissOps ==
    {"update_ticket", "delete", "update_ticket_status", "add_comment_to_ticket"}

\* C13: when Edit, Delete, Move or Comment names an id that is not stored,
\* the call returns None, the run prints that no ticket is associated with
\* the id and goes on, and its save ends it successfully with the store as
\* it was loaded.
C13_NotFoundIsNormal ==
    [][/\ (/\ pc = "loaded"
           /\ command.kind \in {"Edit", "Delete", "Move", "Comment"}
           /\ ~InvalidInput(command)
           /\ command.ticket_id \notin DOMAIN data
           /\ pc' # "loaded") =>
             /\ pc' = "operated"
             /\ exit' = "none"
             /\ last'.op = OpOf(command.kind)
             /\ last'.ret = None
             /\ output' = "no ticket associated"
             /\ data' = data
             /\ current_id' = current_id
       /\ (/\ pc = "operated"
           /\ last.op \in MissOps
           /\ last.ret = None
           /\ pc' # "operated") =>
             /\ pc' = "idle"
             /\ exit' = "ok"
             /\ events' = <<"load", last.op, "save">>
             /\ file' = Some(Load(file))]_vars

\* a Comment for an id that is not stored ended successfully, tickets stored
C13_Witness ==
    /\ pc = "idle"
    /\ exit = "ok"
    /\ last.op = "add_comment_to_ticket"
    /\ last.ret = None
    /\ output = "no ticket associated"
    /\ IsSome(file)
    /\ DOMAIN Unwrap(file).data # {}

\* the titles and comments of a map of tickets are not blank
TextsNotBlank(d) ==
    \A k \in DOMAIN d :
        /\ ~Blank(d[k].title)
        /\ \A i \in 1..Len(d[k].comments) : ~Blank(d[k].comments[i])

\* C15: Title::new fails with EmptyTitle exactly for a text that is empty
\* after trimming and else holds the text untrimmed, Comment::new likewise
\* with EmptyComment; so no title and no comment that a run puts into the
\* store or the file is blank.
C15_ValidatedTexts ==
    /\ TextsNotBlank(data)
    /\ TextsNotBlank(Load(file).data)
    /\ (pc # "loaded" /\ command.kind = "Create") =>
         IF Blank(command.title)
         THEN exit = "EmptyTitle" /\ last = NoCall
         ELSE last.op = "create" /\ last.args[1].title = command.title
    /\ (pc # "loaded" /\ command.kind = "Edit" /\ command.title # None) =>
         IF Blank(Unwrap(command.title))
         THEN exit = "EmptyTitle" /\ last = NoCall
         ELSE /\ last.op = "update_ticket"
              /\ IsSome(last.ret) =>
                   /\ last.args[2].title = command.title
                   /\ data[command.ticket_id].title = Unwrap(command.title)
    /\ (pc # "loaded" /\ command.kind = "Comment") =>
         IF Blank(command.comment)
         THEN exit = "EmptyComment" /\ last = NoCall
         ELSE /\ last.op = "add_comment_to_ticket"
              /\ IsSome(last.ret) =>
                   /\ last.args[2] = command.comment
                   /\ data[command.ticket_id].comments[
                        Len(data[command.ticket_id].comments)] = command.comment

\* a padded title was stored untrimmed by an Edit and saved
C15_Witness ==
    /\ pc = "idle"
    /\ exit = "ok"
    /\ command.kind = "Edit"
    /\ command.title = Some(<<" ", "b", " ">>)
    /\ IsSome(last.ret)
    /\ Unwrap(file).data[command.ticket_id].title = <<" ", "b", " ">>

\* C18: once delete(id) has returned a ticket, get(id) returns nothing after
\* every later sequence of store operations, whatever the counter of the
\* store was when it was loaded.
C18_DeletedStaysAbsent ==
    \A id \in deleted_ids : Get(data, id) = None

\* From a new store, across runs: once delete has returned the ticket of an id, no later store holds
\* a ticket under that id, in the same run or in a later one: the counter,
\* saved and loaded with the tickets, stays at or above the id, and the
\* file holds the id only until the deleting run saves.
DeletionIsPermanentFromNew ==
    \A id \in deleted_ids :
        /\ id \notin DOMAIN data
        /\ U64Leq(id, current_id)
        /\ \/ id \notin DOMAIN Load(file).data
           \/ pc = "operated" /\ last.op = "delete" /\ last.args[1] = id
        /\ (pc = "idle" /\ exit = "ok") => U64Leq(id, Load(file).current_id)

\* ticket 1, the latest issued, was deleted; a later run created ticket 2
DeletionIsPermanentFromNew_Witness ==
    /\ deleted_ids = {ToU64(1)}
    /\ pc = "idle"
    /\ exit = "ok"
    /\ last.op = "create"
    /\ last.ret = ToU64(2)
    /\ runs = 3
    /\ DOMAIN Unwrap(file).data = {ToU64(2)}

====
